---- MODULE Spec2Model ----
(***************************************************************************)
(* Model of the artifact saver's core (src/src/fileUtils.ts): the config   *)
(* store and the objects getConfig returns, the extension resolver, the    *)
(* path builder and artifact writer, and the lister; and of the tool-call  *)
(* handler of the server (index.ts) that dispatches requests to the core.  *)
(*                                                                         *)
(* A JavaScript string is a sequence of one-character strings, so that     *)
(* split, endsWith, replace, toLowerCase and the path functions are        *)
(* computed character by character.  A JavaScript value that is not a      *)
(* string is a sequence whose first element is a tag ("#undefined",        *)
(* "#function", "#object") followed by the characters of its String()      *)
(* coercion.  Paths follow the POSIX flavour of node's path module.        *)
(***************************************************************************)
EXTENDS Naturals, Sequences, FiniteSets

VARIABLES
    config,        \* the module-level config record: [savePath |-> string]
    fsDirs,        \* the directories of the file system (resolved paths)
    fsFiles,       \* the regular files of the file system: resolved path -> content
    events,        \* history: fs calls issued and config assignments, in order
    updPc,         \* position of the updateSavePath call
    newPath,       \* updateSavePath's argument
    absolutePath,  \* updateSavePath's local
    oldSavePath,   \* history: config.savePath when updateSavePath was entered
    updRet,        \* outcome of updateSavePath
    savePc,        \* position of the saveArtifactToFile call
    artifact,      \* saveArtifactToFile's argument
    extension,     \* saveArtifactToFile's local (result of getExtensionForType)
    dirPath,       \* saveArtifactToFile's local
    outputPath,    \* saveArtifactToFile's local
    saveRet,       \* outcome of saveArtifactToFile
    listUnreadable,\* the directories whose readdir rejects during listSavedArtifacts
    listOrder,     \* the order in which readdir hands out entries during the call
    listRet,       \* outcome of listSavedArtifacts
    heap,          \* the objects getConfig has returned: address -> record
    refs,          \* the references the callers of getConfig hold, in call order
    toolPc,        \* position of the tool-call handler
    request,       \* the tool-call request being handled
    response       \* outcome of the tool-call handler

vars == <<config, fsDirs, fsFiles, events, updPc, newPath, absolutePath,
          oldSavePath, updRet, savePc, artifact, extension, dirPath,
          outputPath, saveRet, listUnreadable, listOrder, listRet, heap, refs,
          toolPc, request, response>>

updVars == <<updPc, newPath, absolutePath, oldSavePath, updRet>>
saveVars == <<savePc, artifact, extension, dirPath, outputPath, saveRet>>
fsVars == <<fsDirs, fsFiles>>
listVars == <<listUnreadable, listOrder, listRet>>
objVars == <<heap, refs>>
toolVars == <<toolPc, request, response>>

---------------------------------------------------------------------------
(* Bounds of the model. *)

\* Longest title an artifact is given.
MaxTitleLen == 3

\* Length of the history from which no further save is begun in a sequence
\* of saves.
MaxEvents == 6

\* Most objects the callers of getConfig hold.
MaxObjects == 2

\* Length of the history from which no further call is begun in a sequence
\* of calls of the core.
MaxCallEvents == 5

---------------------------------------------------------------------------
(* JavaScript values and strings. *)

Tags == {"#undefined", "#function", "#object"}

\* The value undefined; String(undefined) is "undefined".
Undefined == <<"#undefined">> \o <<"u", "n", "d", "e", "f", "i", "n", "e", "d">>

IsString(v) == v = <<>> \/ v[1] \notin Tags

\* String(v), as a template literal `${v}` computes it.
templateString(v) == IF IsString(v) THEN v ELSE Tail(v)

\* JavaScript truthiness of a string, undefined, a function or an object.
Truthy(v) == v # <<>> /\ v # Undefined

\* a || b
OrElse(a, b) == IF Truthy(a) THEN a ELSE b

UpperCase == <<"A", "B", "C", "D", "E", "F", "G", "H", "I", "J", "K", "L", "M", "N", "O", "P", "Q", "R", "S", "T", "U", "V", "W", "X", "Y", "Z">>
LowerCase == <<"a", "b", "c", "d", "e", "f", "g", "h", "i", "j", "k", "l", "m", "n", "o", "p", "q", "r", "s", "t", "u", "v", "w", "x", "y", "z">>

toLowerCaseChar(c) ==
    IF \E i \in 1..Len(UpperCase) : UpperCase[i] = c
    THEN LowerCase[CHOOSE i \in 1..Len(UpperCase) : UpperCase[i] = c]
    ELSE c

\* String.prototype.toLowerCase
toLowerCase(s) == [i \in 1..Len(s) |-> toLowerCaseChar(s[i])]

\* String.prototype.includes, for a one-character needle
includes(s, c) == \E i \in 1..Len(s) : s[i] = c

\* String.prototype.endsWith
endsWith(s, suffix) ==
    /\ Len(suffix) <= Len(s)
    /\ SubSeq(s, Len(s) - Len(suffix) + 1, Len(s)) = suffix

startsWith(s, prefix) ==
    /\ Len(prefix) <= Len(s)
    /\ SubSeq(s, 1, Len(prefix)) = prefix

\* String.prototype.split, for a one-character separator: k separators give
\* k + 1 segments, and the empty string gives one empty segment.
split(s, sep) ==
    LET seps == {i \in 1..Len(s) : s[i] = sep}
        n == Cardinality(seps)
        pos(k) == IF k = 0 THEN 0
                  ELSE IF k = n + 1 THEN Len(s) + 1
                  ELSE CHOOSE i \in seps : Cardinality({j \in seps : j < i}) = k - 1
    IN  [k \in 1..(n + 1) |-> SubSeq(s, pos(k - 1) + 1, pos(k) - 1)]

\* Array.prototype.join
RECURSIVE join(_, _)
join(parts, sep) ==
    IF parts = <<>> THEN <<>>
    ELSE IF Len(parts) = 1 THEN parts[1]
    ELSE parts[1] \o <<sep>> \o join(Tail(parts), sep)

\* The array after parts.pop(), and the value popped.
Front(parts) == SubSeq(parts, 1, Len(parts) - 1)
Last(parts) == parts[Len(parts)]

---------------------------------------------------------------------------
(* node's path module, POSIX flavour. *)

Slash == "/"

\* process.cwd(): an absolute directory fixed by the environment.
Cwd == <<"/", "w">>

\* normalizeString: drops empty and "." segments, and lets ".." remove the
\* segment before it; above the start ".." is kept only when allowed.
RECURSIVE normalizeSegments(_, _, _)
normalizeSegments(segs, res, allowAboveRoot) ==
    IF segs = <<>> THEN res
    ELSE LET s == Head(segs)
             next ==
                 IF s = <<>> \/ s = <<".">> THEN res
                 ELSE IF s = <<".", ".">>
                 THEN IF res # <<>> /\ Last(res) # <<".", ".">> THEN Front(res)
                      ELSE IF allowAboveRoot THEN Append(res, s)
                      ELSE res
                 ELSE Append(res, s)
         IN  normalizeSegments(Tail(segs), next, allowAboveRoot)

normalizeString(p, allowAboveRoot) ==
    join(normalizeSegments(split(p, Slash), <<>>, allowAboveRoot), Slash)

isAbsolute(p) == p # <<>> /\ p[1] = Slash

\* path.normalize
pathNormalize(p) ==
    IF p = <<>> THEN <<".">>
    ELSE LET trailing == p[Len(p)] = Slash
             n == normalizeString(p, ~isAbsolute(p))
         IN  IF n = <<>>
             THEN (IF isAbsolute(p) THEN <<"/">>
                   ELSE IF trailing THEN <<".", "/">> ELSE <<".">>)
             ELSE LET t == IF trailing THEN n \o <<Slash>> ELSE n
                  IN  IF isAbsolute(p) THEN <<Slash>> \o t ELSE t

\* path.join(a, b): the non-empty arguments joined by "/" and normalized.
pathJoin(a, b) ==
    IF a = <<>> /\ b = <<>> THEN <<".">>
    ELSE IF a = <<>> THEN pathNormalize(b)
    ELSE IF b = <<>> THEN pathNormalize(a)
    ELSE pathNormalize(a \o <<Slash>> \o b)

\* path.resolve(p): p made absolute against process.cwd() and normalized,
\* without a trailing separator.
pathResolve(p) ==
    LET full == IF isAbsolute(p) THEN p \o <<Slash>>
                ELSE IF p = <<>> THEN Cwd \o <<Slash>>
                ELSE Cwd \o <<Slash>> \o p \o <<Slash>>
    IN  <<Slash>> \o normalizeString(full, FALSE)

\* The directory holding a resolved path (the root holds itself).
parentDir(p) ==
    LET segs == split(p, Slash)
    IN  IF Len(segs) <= 2 THEN <<"/">> ELSE join(Front(segs), Slash)

\* The last segment of a path.
baseName(p) == Last(split(p, Slash))

\* A resolved directory and every directory above it.
RECURSIVE ancestorsAndSelf(_)
ancestorsAndSelf(p) ==
    IF p = <<"/">> THEN {p} ELSE {p} \cup ancestorsAndSelf(parentDir(p))

\* Whether resolved path p is inside (or is) the resolved directory d.
isUnder(p, d) == d \in ancestorsAndSelf(p)

---------------------------------------------------------------------------
(* The extension resolver. *)

\* The own properties of the `extensions` object literal.
extensions ==
    { <<<<"p", "y", "t", "h", "o", "n">>, <<"p", "y">>>>, <<<<"j", "a", "v", "a", "s", "c", "r", "i", "p", "t">>, <<"j", "s">>>>,
      <<<<"t", "y", "p", "e", "s", "c", "r", "i", "p", "t">>, <<"t", "s">>>>, <<<<"j", "a", "v", "a">>, <<"j", "a", "v", "a">>>>,
      <<<<"c">>, <<"c">>>>, <<<<"c", "p", "p">>, <<"c", "p", "p">>>>, <<<<"c", "s", "h", "a", "r", "p">>, <<"c", "s">>>>,
      <<<<"g", "o">>, <<"g", "o">>>>, <<<<"r", "u", "b", "y">>, <<"r", "b">>>>, <<<<"r", "u", "s", "t">>, <<"r", "s">>>>,
      <<<<"p", "h", "p">>, <<"p", "h", "p">>>>, <<<<"s", "w", "i", "f", "t">>, <<"s", "w", "i", "f", "t">>>>,
      <<<<"k", "o", "t", "l", "i", "n">>, <<"k", "t">>>>, <<<<"s", "c", "a", "l", "a">>, <<"s", "c", "a", "l", "a">>>>,
      <<<<"s", "h", "e", "l", "l">>, <<"s", "h">>>>, <<<<"b", "a", "s", "h">>, <<"s", "h">>>>,
      <<<<"p", "o", "w", "e", "r", "s", "h", "e", "l", "l">>, <<"p", "s", "1">>>>, <<<<"s", "q", "l">>, <<"s", "q", "l">>>>,
      <<<<"h", "t", "m", "l">>, <<"h", "t", "m", "l">>>>, <<<<"c", "s", "s">>, <<"c", "s", "s">>>>,
      <<<<"j", "s", "o", "n">>, <<"j", "s", "o", "n">>>>, <<<<"y", "a", "m", "l">>, <<"y", "a", "m", "l">>>>,
      <<<<"x", "m", "l">>, <<"x", "m", "l">>>> }

\* A native function, as a value: String(f) is "function name() { [native code] }".
NativeFunction(name) ==
    <<"#function">> \o <<"f", "u", "n", "c", "t", "i", "o", "n", " ">> \o name \o <<"(", ")", " ", "{", " ", "[", "n", "a", "t", "i", "v", "e", " ", "c", "o", "d", "e", "]", " ", "}">>

\* The properties an object literal inherits from Object.prototype.
objectPrototype ==
    { <<k, NativeFunction(k)>> : k \in
        { <<"t", "o", "S", "t", "r", "i", "n", "g">>, <<"t", "o", "L", "o", "c", "a", "l", "e", "S", "t", "r", "i", "n", "g">>, <<"v", "a", "l", "u", "e", "O", "f">>, <<"h", "a", "s", "O", "w", "n", "P", "r", "o", "p", "e", "r", "t", "y">>,
          <<"i", "s", "P", "r", "o", "t", "o", "t", "y", "p", "e", "O", "f">>, <<"p", "r", "o", "p", "e", "r", "t", "y", "I", "s", "E", "n", "u", "m", "e", "r", "a", "b", "l", "e">>, <<"_", "_", "d", "e", "f", "i", "n", "e", "G", "e", "t", "t", "e", "r", "_", "_">>,
          <<"_", "_", "d", "e", "f", "i", "n", "e", "S", "e", "t", "t", "e", "r", "_", "_">>, <<"_", "_", "l", "o", "o", "k", "u", "p", "G", "e", "t", "t", "e", "r", "_", "_">>, <<"_", "_", "l", "o", "o", "k", "u", "p", "S", "e", "t", "t", "e", "r", "_", "_">> } }
    \cup { <<<<"c", "o", "n", "s", "t", "r", "u", "c", "t", "o", "r">>, NativeFunction(<<"O", "b", "j", "e", "c", "t">>)>>,
           <<<<"_", "_", "p", "r", "o", "t", "o", "_", "_">>, <<"#object">> \o <<"[", "o", "b", "j", "e", "c", "t", " ", "O", "b", "j", "e", "c", "t", "]">>>> }

\* obj[key] for an object literal with the given own properties: the own
\* property, else the inherited one, else undefined.
getProperty(own, key) ==
    IF \E e \in own : e[1] = key
    THEN (CHOOSE e \in own : e[1] = key)[2]
    ELSE IF \E e \in objectPrototype : e[1] = key
    THEN (CHOOSE e \in objectPrototype : e[1] = key)[2]
    ELSE Undefined

getCodeExtension(language) ==
    OrElse(getProperty(extensions, toLowerCase(language)), <<"t", "x", "t">>)

\* getExtensionForType without its 'image/svg+xml' case.
getExtensionForType_NoSvg(type, language) ==
    CASE type = "application/vnd.ant.code" ->
             getCodeExtension(OrElse(language, <<"t", "x", "t">>))
      [] type = "text/markdown" -> <<"m", "d">>
      [] type = "text/html" -> <<"h", "t", "m", "l">>
      [] type = "application/vnd.ant.mermaid" -> <<"m", "m", "d">>
      [] type = "application/vnd.ant.react" -> <<"j", "s", "x">>
      [] OTHER -> <<"t", "x", "t">>

getExtensionForType(type, language) ==
    CASE type = "application/vnd.ant.code" ->
             getCodeExtension(OrElse(language, <<"t", "x", "t">>))
      [] type = "text/markdown" -> <<"m", "d">>
      [] type = "text/html" -> <<"h", "t", "m", "l">>
      [] type = "image/svg+xml" -> <<"s", "v", "g">>
      [] type = "application/vnd.ant.mermaid" -> <<"m", "m", "d">>
      [] type = "application/vnd.ant.react" -> <<"j", "s", "x">>
      [] OTHER -> <<"t", "x", "t">>

\* The characters the sanitizer's class [<>:"\\|?*\x00-\x1F] matches; of the
\* control characters those that have an escape in a string literal.
ControlChars == {"\t", "\n", "\f", "\r"}
ForbiddenChars == {"<", ">", ":", "\"", "\\", "|", "?", "*"} \cup ControlChars

\* sanitizeFileName with ':' missing from its character class.
sanitizeFileName_NoColon(fileName) ==
    [i \in 1..Len(fileName) |->
        IF fileName[i] \in ForbiddenChars \ {":"} THEN "_" ELSE fileName[i]]

sanitizeFileName(fileName) ==
    [i \in 1..Len(fileName) |->
        IF fileName[i] \in ForbiddenChars THEN "_" ELSE fileName[i]]

---------------------------------------------------------------------------
(* The file system, as fs/promises sees it.  A path is resolved against    *)
(* the working directory; fsDirs and fsFiles hold resolved paths.          *)

\* The errors the environment may raise on any call (permissions, I/O).
EnvErrors == {"EACCES"}

\* fs.mkdir(p, {recursive: true}) cannot succeed through a regular file.
mkdirBlocked(p) == \E d \in ancestorsAndSelf(pathResolve(p)) : d \in DOMAIN fsFiles

\* The directories after a successful fs.mkdir(p, {recursive: true}): p and
\* every missing directory above it.
mkdirRecursive(p) == fsDirs \cup ancestorsAndSelf(pathResolve(p))

\* The error fs.writeFile(p, ...) must raise, "" when it need not raise one.
writeFileError(p) ==
    IF parentDir(pathResolve(p)) \notin fsDirs THEN "ENOENT"
    ELSE IF pathResolve(p) \in fsDirs THEN "EISDIR"
    ELSE ""

\* fs.writeFile that leaves an existing file as it is.
writeFile_KeepsExisting(p, data) ==
    [f \in DOMAIN fsFiles \cup {pathResolve(p)} |->
        IF f \in DOMAIN fsFiles THEN fsFiles[f] ELSE data]

\* The files after a successful fs.writeFile(p, data): the file is created
\* or replaced.
writeFile(p, data) ==
    [f \in DOMAIN fsFiles \cup {pathResolve(p)} |->
        IF f = pathResolve(p) THEN data ELSE fsFiles[f]]

\* An entry of the history.
Event(op, path, data, by) == [op |-> op, path |-> path, data |-> data, by |-> by]

\* The history entries of one call.
EventsOf(by) == SelectSeq(events, LAMBDA e : e.by = by)

\* The path of the fs call that saveArtifactToFile awaits: the argument of
\* its latest call, whatever other calls have issued since.
awaitedPath == Last(EventsOf("save")).path

NoReturn == [kind |-> "none", value |-> <<>>]

\* No request, and no outcome of the handler yet.
NoRequest ==
    [name |-> "", hasArguments |-> FALSE, id |-> Undefined, title |-> Undefined,
     content |-> "", type |-> "", language |-> Undefined, path |-> Undefined,
     eventsAt |-> 0]

NoResponse == [kind |-> "none", isError |-> FALSE, text |-> <<>>]

---------------------------------------------------------------------------
(* The config store. *)

\* getConfig(): a fresh object holding the current savePath.
getConfig == [savePath |-> config.savePath]

\* updateSavePath without path.resolve: the raw argument is used.
UpdateBegin_Raw(p) ==
    /\ updPc = "idle"
    /\ newPath' = p
    /\ absolutePath' = p
    /\ oldSavePath' = config.savePath
    /\ events' = Append(events, Event("mkdir", p, "recursive", "update"))
    /\ updPc' = "mkdir"
    /\ UNCHANGED <<toolVars, listVars, objVars, config, fsVars, updRet, saveVars>>

\* updateSavePath, up to its await: resolves the argument and issues mkdir.
UpdateBegin(p) ==
    /\ updPc = "idle"
    /\ newPath' = p
    /\ absolutePath' = pathResolve(p)
    /\ oldSavePath' = config.savePath
    /\ events' = Append(events, Event("mkdir", pathResolve(p), "recursive", "update"))
    /\ updPc' = "mkdir"
    /\ UNCHANGED <<toolVars, listVars, objVars, config, fsVars, updRet, saveVars>>

\* mkdir resolved: the config is assigned and the call returns.
UpdateMkdirOk ==
    /\ updPc = "mkdir"
    /\ ~mkdirBlocked(absolutePath)
    /\ fsDirs' = mkdirRecursive(absolutePath)
    /\ config' = [config EXCEPT !.savePath = absolutePath]
    /\ events' = Append(events, Event("setConfig", absolutePath, "", "update"))
    /\ updRet' = [kind |-> "return", value |-> <<>>]
    /\ updPc' = "done"
    /\ UNCHANGED <<toolVars, listVars, objVars, fsFiles, newPath, absolutePath, oldSavePath, saveVars>>

\* updateSavePath assigning the config before mkdir has resolved.
UpdateMkdirFail_ConfigFirst(error) ==
    /\ updPc = "mkdir"
    /\ error \in EnvErrors \/ (mkdirBlocked(absolutePath) /\ error = "ENOTDIR")
    /\ config' = [config EXCEPT !.savePath = absolutePath]
    /\ events' = Append(events, Event("error", absolutePath, error, "update"))
    /\ updRet' = [kind |-> "throw", value |-> <<"Failed to set save path: ", error>>]
    /\ updPc' = "done"
    /\ UNCHANGED <<toolVars, listVars, objVars, fsVars, newPath, absolutePath, oldSavePath, saveVars>>

\* mkdir rejected: the catch block throws a new error wrapping the cause.
UpdateMkdirFail(error) ==
    /\ updPc = "mkdir"
    /\ error \in EnvErrors \/ (mkdirBlocked(absolutePath) /\ error = "ENOTDIR")
    /\ events' = Append(events, Event("error", absolutePath, error, "update"))
    /\ updRet' = [kind |-> "throw", value |-> <<"Failed to set save path: ", error>>]
    /\ updPc' = "done"
    /\ UNCHANGED <<toolVars, listVars, objVars, config, fsVars, newPath, absolutePath, oldSavePath, saveVars>>

---------------------------------------------------------------------------
(* The path builder and artifact writer. *)

ArtifactPrefix == <<"a", "r", "t", "i", "f", "a", "c", "t", "-">>
Dot == <<".">>

\* `artifact-${artifact.id}`
artifactIdName(a) == ArtifactPrefix \o templateString(a.id)

\* Lines 42-44: the title's segments, the file name and the directories.
titleParts(a) == split(a.title, Slash)
titleFileName(a) == OrElse(Last(titleParts(a)), artifactIdName(a))
dirStructure(a) == join(Front(titleParts(a)), Slash)

\* The nested branch appending the extension whatever the name ends with.
nestedOutputPath_AlwaysAppends(dir, a, ext) ==
    pathJoin(dir, sanitizeFileName(titleFileName(a) \o Dot \o templateString(ext)))

\* Lines 53-57: the output path of a title with directories.
nestedOutputPath(dir, a, ext) ==
    IF endsWith(titleFileName(a), Dot \o templateString(ext))
    THEN pathJoin(dir, sanitizeFileName(titleFileName(a)))
    ELSE pathJoin(dir, sanitizeFileName(titleFileName(a) \o Dot \o templateString(ext)))

\* Lines 60-63: the output path of a title without directories.
flatOutputPath(root, a, ext) ==
    pathJoin(root, sanitizeFileName(a.title \o Dot \o templateString(ext)))

\* Lines 67-70: the output path of an artifact without title.
idOutputPath(root, a) ==
    pathJoin(root, sanitizeFileName(artifactIdName(a) \o Dot
        \o templateString(getExtensionForType(a.type, a.language))))

\* saveArtifactToFile storing the resolved save path in the config first.
SaveBegin_ResolvesConfig(a) ==
    /\ savePc = "idle"
    /\ artifact' = a
    /\ config' = [config EXCEPT !.savePath = pathResolve(config.savePath)]
    /\ events' = Append(events, Event("mkdir", config.savePath, "recursive", "save"))
    /\ savePc' = "mkdirRoot"
    /\ UNCHANGED <<toolVars, listVars, objVars, fsVars, extension, dirPath, outputPath, saveRet, updVars>>

\* saveArtifactToFile, up to its first await: issues mkdir of the save path.
SaveBegin(a) ==
    /\ savePc = "idle"
    /\ artifact' = a
    /\ events' = Append(events, Event("mkdir", config.savePath, "recursive", "save"))
    /\ savePc' = "mkdirRoot"
    /\ UNCHANGED <<toolVars, listVars, objVars, config, fsVars, extension, dirPath, outputPath, saveRet, updVars>>

\* saveArtifactToFile catching a rejected fs call and returning the path.
SaveThrow_Swallowed(path, error) ==
    /\ events' = Append(events, Event("error", path, error, "save"))
    /\ saveRet' = [kind |-> "return", value |-> path]
    /\ savePc' = "done"
    /\ UNCHANGED <<toolVars, listVars, objVars, config, fsVars, artifact, extension, dirPath, outputPath, updVars>>

\* A rejected fs call of saveArtifactToFile: the rejection leaves the function.
SaveThrow(path, error) ==
    /\ events' = Append(events, Event("error", path, error, "save"))
    /\ saveRet' = [kind |-> "throw", value |-> <<error>>]
    /\ savePc' = "done"
    /\ UNCHANGED <<toolVars, listVars, objVars, config, fsVars, artifact, extension, dirPath, outputPath, updVars>>

SaveMkdirRootFail(error) ==
    /\ savePc = "mkdirRoot"
    /\ error \in EnvErrors
    /\ SaveThrow(awaitedPath, error)

\* saveArtifactToFile writing a nested title without creating its directory.
SaveMkdirRootOkNested_NoMkdir ==
    /\ savePc = "mkdirRoot"
    /\ fsDirs' = mkdirRecursive(awaitedPath)
    /\ Truthy(artifact.title) /\ includes(artifact.title, Slash)
    /\ extension' = getExtensionForType(artifact.type, artifact.language)
    /\ dirPath' = pathJoin(config.savePath, dirStructure(artifact))
    /\ outputPath' = nestedOutputPath(dirPath', artifact, extension')
    /\ events' = Append(events, Event("writeFile", outputPath', artifact.content, "save"))
    /\ savePc' = "write"
    /\ UNCHANGED <<toolVars, listVars, objVars, config, fsFiles, artifact, saveRet, updVars>>

\* The first mkdir resolved and the title has directories: lines 37-50.
SaveMkdirRootOkNested ==
    /\ savePc = "mkdirRoot"
    /\ fsDirs' = mkdirRecursive(awaitedPath)
    /\ Truthy(artifact.title) /\ includes(artifact.title, Slash)
    /\ extension' = getExtensionForType(artifact.type, artifact.language)
    /\ dirPath' = pathJoin(config.savePath, dirStructure(artifact))
    /\ events' = Append(events, Event("mkdir", dirPath', "recursive", "save"))
    /\ savePc' = "mkdirDir"
    /\ UNCHANGED <<toolVars, listVars, objVars, config, fsFiles, artifact, outputPath, saveRet, updVars>>

\* The first mkdir resolved and the title has no directories: lines 37, 60-74.
SaveMkdirRootOkFlat ==
    /\ savePc = "mkdirRoot"
    /\ fsDirs' = mkdirRecursive(awaitedPath)
    /\ Truthy(artifact.title) /\ ~includes(artifact.title, Slash)
    /\ extension' = getExtensionForType(artifact.type, artifact.language)
    /\ outputPath' = flatOutputPath(config.savePath, artifact, extension')
    /\ events' = Append(events, Event("writeFile", outputPath', artifact.content, "save"))
    /\ savePc' = "write"
    /\ UNCHANGED <<toolVars, listVars, objVars, config, fsFiles, artifact, dirPath, saveRet, updVars>>

\* The first mkdir resolved and there is no title: lines 67-74.
SaveMkdirRootOkNoTitle ==
    /\ savePc = "mkdirRoot"
    /\ fsDirs' = mkdirRecursive(awaitedPath)
    /\ ~Truthy(artifact.title)
    /\ outputPath' = idOutputPath(config.savePath, artifact)
    /\ events' = Append(events, Event("writeFile", outputPath', artifact.content, "save"))
    /\ savePc' = "write"
    /\ UNCHANGED <<toolVars, listVars, objVars, config, fsFiles, artifact, extension, dirPath, saveRet, updVars>>

SaveMkdirDirFail(error) ==
    /\ savePc = "mkdirDir"
    /\ error \in EnvErrors
    /\ SaveThrow(dirPath, error)

\* The nested mkdir resolved: lines 53-74.
SaveMkdirDirOk ==
    /\ savePc = "mkdirDir"
    /\ fsDirs' = mkdirRecursive(dirPath)
    /\ outputPath' = nestedOutputPath(dirPath, artifact, extension)
    /\ events' = Append(events, Event("writeFile", outputPath', artifact.content, "save"))
    /\ savePc' = "write"
    /\ UNCHANGED <<toolVars, listVars, objVars, config, fsFiles, artifact, extension, dirPath, saveRet, updVars>>

SaveWriteFail(error) ==
    /\ savePc = "write"
    /\ error \in EnvErrors \/ (error # "" /\ error = writeFileError(outputPath))
    /\ SaveThrow(outputPath, error)

\* saveArtifactToFile returning the resolved form of the path it wrote.
SaveWriteOk_ReturnsResolved ==
    /\ savePc = "write"
    /\ writeFileError(outputPath) = ""
    /\ fsFiles' = writeFile(outputPath, artifact.content)
    /\ saveRet' = [kind |-> "return", value |-> pathResolve(outputPath)]
    /\ savePc' = "done"
    /\ UNCHANGED <<toolVars, listVars, objVars, config, fsDirs, events, artifact, extension, dirPath, outputPath, updVars>>

\* writeFile resolved: the path written is returned.
SaveWriteOk ==
    /\ savePc = "write"
    /\ writeFileError(outputPath) = ""
    /\ fsFiles' = writeFile(outputPath, artifact.content)
    /\ saveRet' = [kind |-> "return", value |-> outputPath]
    /\ savePc' = "done"
    /\ UNCHANGED <<toolVars, listVars, objVars, config, fsDirs, events, artifact, extension, dirPath, outputPath, updVars>>

---------------------------------------------------------------------------
(* The requests. *)

SeqsUpTo(S, n) == UNION {[1..k -> S] : k \in 0..n}

\* The characters of a title: a letter, the dot, the separator and a
\* forbidden character.
TitleChars == {"c", ".", "/", ":"}
Titles == SeqsUpTo(TitleChars, MaxTitleLen) \cup {Undefined}

Ids == {<<"c">>, <<":">>, <<".", "c">>, <<"c", "/", "c">>}

CodeType == "application/vnd.ant.code"

\* (type, language) of the artifacts saved.
Kinds == {<<CodeType, <<"C">>>>, <<"text/markdown", Undefined>>,
          <<CodeType, <<"c", "o", "n", "s", "t", "r", "u", "c", "t", "o", "r">>>>}

Artifacts ==
    {[id |-> i, title |-> t, content |-> "v1", type |-> k[1], language |-> k[2]] :
        i \in Ids, t \in Titles, k \in Kinds}

NoArtifact ==
    [id |-> Undefined, title |-> Undefined, content |-> "", type |-> "",
     language |-> Undefined]

\* The arguments of set-save-path: relative, absolute, with a trailing
\* separator, with dot segments, and empty.
SavePaths == {<<"c">>, <<"/", "c">>, <<"/", "c", "/">>, <<".", ".", "/", "c", "/", ".", "/", "c">>, <<>>}

Init ==
    /\ config = [savePath |-> <<".", "/", "a", "r", "t", "i", "f", "a", "c", "t", "s">>]
    /\ fsDirs = ancestorsAndSelf(Cwd)
    /\ fsFiles = <<>>
    /\ events = <<>>
    /\ updPc = "idle"
    /\ newPath = Undefined
    /\ absolutePath = Undefined
    /\ oldSavePath = Undefined
    /\ updRet = NoReturn
    /\ savePc = "idle"
    /\ artifact = NoArtifact
    /\ extension = Undefined
    /\ dirPath = Undefined
    /\ outputPath = Undefined
    /\ saveRet = NoReturn
    /\ listUnreadable = {}
    /\ listOrder = <<>>
    /\ listRet = NoReturn
    /\ heap = <<>>
    /\ refs = <<>>
    /\ toolPc = "idle"
    /\ request = NoRequest
    /\ response = NoResponse

\* set-save-path is served before save-artifact, and each request is awaited
\* to completion before the next one begins.
Next ==
    \/ updPc = "idle" /\ savePc = "idle" /\ \E p \in SavePaths : UpdateBegin(p)
    \/ UpdateMkdirOk
    \/ \E e \in EnvErrors \cup {"ENOTDIR"} : UpdateMkdirFail(e)
    \/ updPc \in {"idle", "done"} /\ savePc = "idle" /\ \E a \in Artifacts : SaveBegin(a)
    \/ \E e \in EnvErrors : SaveMkdirRootFail(e)
    \/ SaveMkdirRootOkNested
    \/ SaveMkdirRootOkFlat
    \/ SaveMkdirRootOkNoTitle
    \/ \E e \in EnvErrors : SaveMkdirDirFail(e)
    \/ SaveMkdirDirOk
    \/ \E e \in EnvErrors \cup {"ENOENT", "EISDIR"} : SaveWriteFail(e)
    \/ SaveWriteOk

Spec == Init /\ [][Next]_vars

---------------------------------------------------------------------------
(* The extension resolver on its own: every (type, language) pair of the   *)
(* sets below is resolved once.                                            *)

toUpperCaseChar(c) ==
    IF \E i \in 1..Len(LowerCase) : LowerCase[i] = c
    THEN UpperCase[CHOOSE i \in 1..Len(LowerCase) : LowerCase[i] = c]
    ELSE c

toUpperCase(s) == [i \in 1..Len(s) |-> toUpperCaseChar(s[i])]

capitalize(s) == [i \in 1..Len(s) |-> IF i = 1 THEN toUpperCaseChar(s[i]) ELSE s[i]]

SupportedTypes ==
    {CodeType, "text/markdown", "text/html", "image/svg+xml",
     "application/vnd.ant.mermaid", "application/vnd.ant.react"}

ExtTypes ==
    SupportedTypes \cup
    {"text/plain", "unknown/type", "", "Text/Markdown", "text/markdown ",
     "text/htm", "application/vnd.ant.code;", "APPLICATION/VND.ANT.CODE",
     "image/svg", "application/vnd.ant"}

LanguageKeys == {e[1] : e \in extensions}

ExtLanguages ==
    LanguageKeys
    \cup {toUpperCase(k) : k \in LanguageKeys}
    \cup {capitalize(k) : k \in LanguageKeys}
    \cup {e[1] : e \in objectPrototype}
    \cup {Undefined, <<>>, <<"t", "x", "t">>, <<"f", "o", "r", "t", "r", "a", "n">>, <<"p", "y">>, <<"c", "+", "+">>, <<" ", "p", "y", "t", "h", "o", "n">>,
          <<"C", "O", "N", "S", "T", "R", "U", "C", "T", "O", "R">>, <<"t", "o", "s", "t", "r", "i", "n", "g">>}

InitExt ==
    /\ config = [savePath |-> <<".", "/", "a", "r", "t", "i", "f", "a", "c", "t", "s">>]
    /\ fsDirs = ancestorsAndSelf(Cwd)
    /\ fsFiles = <<>>
    /\ events = <<>>
    /\ updPc = "idle"
    /\ newPath = Undefined
    /\ absolutePath = Undefined
    /\ oldSavePath = Undefined
    /\ updRet = NoReturn
    /\ savePc = "resolve"
    /\ \E t \in ExtTypes, l \in ExtLanguages :
          artifact = [id |-> <<"c">>, title |-> Undefined, content |-> "v1",
                      type |-> t, language |-> l]
    /\ extension = Undefined
    /\ dirPath = Undefined
    /\ outputPath = Undefined
    /\ saveRet = NoReturn
    /\ listUnreadable = {}
    /\ listOrder = <<>>
    /\ listRet = NoReturn
    /\ heap = <<>>
    /\ refs = <<>>
    /\ toolPc = "idle"
    /\ request = NoRequest
    /\ response = NoResponse

\* One call of getExtensionForType(artifact.type, artifact.language).
ExtResolve ==
    /\ savePc = "resolve"
    /\ extension' = getExtensionForType(artifact.type, artifact.language)
    /\ savePc' = "resolved"
    /\ UNCHANGED <<toolVars, listVars, objVars, config, fsVars, events, updVars, artifact, dirPath, outputPath, saveRet>>

NextExt == ExtResolve

SpecExt == InitExt /\ [][NextExt]_vars

---------------------------------------------------------------------------
(* A sequence of saves: each call runs to its end, its result is handed to *)
(* the caller, and the next call begins.                                   *)

\* Titles of which two resolve to the same file, a nested one and none.
SeqTitles == {<<"c">>, <<".", "/", "c">>, <<"c", "/", "c">>, Undefined}

SeqArtifacts ==
    {[id |-> <<"c">>, title |-> t, content |-> v, type |-> CodeType,
      language |-> <<"C">>] : t \in SeqTitles, v \in {"v1", "v2"}}

\* The promise of saveArtifactToFile has settled and the caller has taken
\* the outcome: the locals of the call are gone.
SaveReturn ==
    /\ savePc = "done"
    /\ savePc' = "idle"
    /\ artifact' = NoArtifact
    /\ extension' = Undefined
    /\ dirPath' = Undefined
    /\ outputPath' = Undefined
    /\ saveRet' = NoReturn
    /\ UNCHANGED <<toolVars, listVars, objVars, config, fsVars, events, updVars>>

InitSeq == Init

NextSeq ==
    \/ savePc = "idle" /\ Len(events) < MaxEvents /\ \E a \in SeqArtifacts : SaveBegin(a)
    \/ \E e \in EnvErrors : SaveMkdirRootFail(e)
    \/ SaveMkdirRootOkNested \/ SaveMkdirRootOkFlat \/ SaveMkdirRootOkNoTitle
    \/ \E e \in EnvErrors : SaveMkdirDirFail(e)
    \/ SaveMkdirDirOk
    \/ \E e \in EnvErrors \cup {"ENOENT", "EISDIR"} : SaveWriteFail(e)
    \/ SaveWriteOk
    \/ SaveReturn

SpecSeq == InitSeq /\ [][NextSeq]_vars

---------------------------------------------------------------------------
(* The objects of the config store.  An object is known by its address:    *)
(* the module's own config object has the address ConfigAddr, the objects  *)
(* that getConfig allocates have the addresses 1, 2, ... and live in heap.  *)

ConfigAddr == 0

\* The object at an address, in a heap and in the current one.
DerefIn(h, a) == IF a = ConfigAddr THEN config ELSE h[a]
Deref(a) == DerefIn(heap, a)

\* getConfig handing out the module's own object.
newConfigObject_SharedReference == [addr |-> ConfigAddr, heap |-> heap]

\* ({ ...config }): a new object with the own properties of config.
newConfigObject == [addr |-> Len(heap) + 1, heap |-> Append(heap, getConfig)]

\* A call of getConfig; the caller keeps the reference.  The entry of refs
\* also records the savePath the object had when it was returned, and the
\* one its holder expects it to have since.
GetConfig ==
    /\ Len(refs) < MaxObjects
    /\ heap' = newConfigObject.heap
    /\ refs' = Append(refs, [addr |-> newConfigObject.addr,
                             returned |-> DerefIn(newConfigObject.heap,
                                                  newConfigObject.addr).savePath,
                             at |-> config.savePath,
                             expected |-> config.savePath])
    /\ UNCHANGED <<toolVars, listVars, config, fsVars, events, updVars, saveVars>>

\* The holder of the i-th reference assigns v to the object's savePath.
AssignSavePath(i, v) ==
    /\ i \in 1..Len(refs)
    /\ IF refs[i].addr = ConfigAddr
       THEN config' = [config EXCEPT !.savePath = v] /\ UNCHANGED heap
       ELSE heap' = [heap EXCEPT ![refs[i].addr].savePath = v] /\ UNCHANGED config
    /\ refs' = [refs EXCEPT ![i].expected = v]
    /\ UNCHANGED <<toolVars, listVars, fsVars, events, updVars, saveVars>>

\* The values callers assign.
AssignedPaths == {<<"n", "e", "w", "-", "p", "a", "t", "h">>, <<"/", "c">>}

InitObj == Init

NextObj ==
    \/ updPc = "idle" /\ \E p \in SavePaths : UpdateBegin(p)
    \/ UpdateMkdirOk
    \/ \E e \in EnvErrors \cup {"ENOTDIR"} : UpdateMkdirFail(e)
    \/ GetConfig
    \/ \E i \in 1..MaxObjects, v \in AssignedPaths : AssignSavePath(i, v)

SpecObj == InitObj /\ [][NextObj]_vars

---------------------------------------------------------------------------
(* The lister.  listSavedArtifacts reads the tree below config.savePath    *)
(* depth first; the environment decides which directories reject readdir   *)
(* (unreadable) and in which order a directory's entries are handed out    *)
(* (order: names in the order they come first; the names it does not hold  *)
(* follow).  The tree does not change while the call runs.                 *)

RECURSIVE setToSeq(_)
setToSeq(S) ==
    IF S = {} THEN <<>>
    ELSE LET x == CHOOSE y \in S : TRUE IN <<x>> \o setToSeq(S \ {x})

\* The error fs.readdir(p) rejects with, "" when it resolves.
readdirError(p, unreadable) ==
    IF pathResolve(p) \in DOMAIN fsFiles THEN "ENOTDIR"
    ELSE IF pathResolve(p) \notin fsDirs THEN "ENOENT"
    ELSE IF pathResolve(p) \in unreadable THEN "EACCES"
    ELSE ""

\* The names of the entries of directory p.
entryNames(p) ==
    {baseName(x) : x \in {y \in (fsDirs \cup DOMAIN fsFiles) :
                            y # <<Slash>> /\ parentDir(y) = pathResolve(p)}}

\* fs.readdir(p, { withFileTypes: true }), as the names of the entries.
readdir(p, order) ==
    SelectSeq(order, LAMBDA n : n \in entryNames(p))
        \o setToSeq(entryNames(p) \ {order[i] : i \in 1..Len(order)})

\* entry.isDirectory() for the entry `name` of directory p.
isDirectory(p, name) == pathResolve(pathJoin(p, name)) \in fsDirs

RECURSIVE listFilesRecursively(_, _, _, _, _)
RECURSIVE listEntries(_, _, _, _, _, _)

\* The loop pushing the entry's name instead of its relative path.
listEntries_PushesName(entries, currentPath, relativePath, results, unreadable, order) ==
    IF entries = <<>> THEN results
    ELSE LET name == Head(entries)
             entryPath == pathJoin(currentPath, name)
             entryRelativePath == pathJoin(relativePath, name)
         IN  listEntries(Tail(entries), currentPath, relativePath,
                 IF isDirectory(currentPath, name)
                 THEN listFilesRecursively(entryPath, entryRelativePath, results,
                                           unreadable, order)
                 ELSE Append(results, name),
                 unreadable, order)

\* The catch block emptying the results.
listFilesRecursively_DropsResultsOnError(currentPath, relativePath, results, unreadable, order) ==
    IF readdirError(currentPath, unreadable) # "" THEN <<>>
    ELSE listEntries(readdir(currentPath, order), currentPath, relativePath,
                     results, unreadable, order)

\* The for loop over the entries of currentPath: a directory is listed
\* recursively, anything else is pushed with its relative path.
listEntries(entries, currentPath, relativePath, results, unreadable, order) ==
    IF entries = <<>> THEN results
    ELSE LET name == Head(entries)
             entryPath == pathJoin(currentPath, name)
             entryRelativePath == pathJoin(relativePath, name)
         IN  listEntries(Tail(entries), currentPath, relativePath,
                 IF isDirectory(currentPath, name)
                 THEN listFilesRecursively(entryPath, entryRelativePath, results,
                                           unreadable, order)
                 ELSE Append(results, entryRelativePath),
                 unreadable, order)

\* listFilesRecursively: `results` after the call.  A rejected readdir is
\* caught and logged, and leaves results as they are.
listFilesRecursively(currentPath, relativePath, results, unreadable, order) ==
    IF readdirError(currentPath, unreadable) # "" THEN results
    ELSE listEntries(readdir(currentPath, order), currentPath, relativePath,
                     results, unreadable, order)

\* listSavedArtifacts without the catch blocks: a rejected readdir of the
\* root rejects the call.
listSavedArtifacts_RootErrorThrown(unreadable, order) ==
    IF readdirError(config.savePath, unreadable) # ""
    THEN [kind |-> "throw", value |-> <<readdirError(config.savePath, unreadable)>>]
    ELSE [kind |-> "return",
          value |-> listFilesRecursively(config.savePath, <<>>, <<>>, unreadable, order)]

\* The outcome of listSavedArtifacts.  Nothing inside the outer try can
\* throw, since listFilesRecursively catches every rejection itself.
listSavedArtifacts(unreadable, order) ==
    [kind |-> "return",
     value |-> listFilesRecursively(config.savePath, <<>>, <<>>, unreadable, order)]

ListArtifacts(unreadable, order) ==
    /\ listRet = NoReturn
    /\ listUnreadable' = unreadable
    /\ listOrder' = order
    /\ listRet' = listSavedArtifacts(unreadable, order)
    /\ UNCHANGED <<toolVars, objVars, config, fsVars, events, updVars, saveVars>>

\* The trees the lister is run on: below the save root the directories d,
\* e and d/d, each optional, and a file f in each directory; the save root
\* may be missing or be a regular file.
ListRootDir == pathResolve(<<".", "/", "a", "r", "t", "i", "f", "a", "c", "t", "s">>)

TreeDirs ==
    {ListRootDir} \cup {ListRootDir \o d : d \in {<<"/", "d">>, <<"/", "e">>,
                                                 <<"/", "d", "/", "d">>}}

TreeFiles == {ListRootDir} \cup {d \o <<"/", "f">> : d \in TreeDirs}

ListNames == {<<"d">>, <<"e">>, <<"f">>}

\* The orders of enumeration: the permutations of the names.
ListOrders ==
    {o \in [1..Cardinality(ListNames) -> ListNames] :
        \A i, j \in 1..Cardinality(ListNames) : i # j => o[i] # o[j]}

InitList ==
    /\ config = [savePath |-> <<".", "/", "a", "r", "t", "i", "f", "a", "c", "t", "s">>]
    /\ \E D \in SUBSET TreeDirs, F \in SUBSET TreeFiles :
           /\ \A d \in D : d = ListRootDir \/ parentDir(d) \in D
           /\ \A f \in F : f \notin D /\ (f = ListRootDir \/ parentDir(f) \in D)
           /\ fsDirs = ancestorsAndSelf(Cwd) \cup D
           /\ fsFiles = [f \in F |-> "v1"]
    /\ events = <<>>
    /\ updPc = "idle"
    /\ newPath = Undefined
    /\ absolutePath = Undefined
    /\ oldSavePath = Undefined
    /\ updRet = NoReturn
    /\ savePc = "idle"
    /\ artifact = NoArtifact
    /\ extension = Undefined
    /\ dirPath = Undefined
    /\ outputPath = Undefined
    /\ saveRet = NoReturn
    /\ listUnreadable = {}
    /\ listOrder = <<>>
    /\ listRet = NoReturn
    /\ heap = <<>>
    /\ refs = <<>>
    /\ toolPc = "idle"
    /\ request = NoRequest
    /\ response = NoResponse

NextList == \E unreadable \in SUBSET TreeDirs, order \in ListOrders :
                ListArtifacts(unreadable, order)

SpecList == InitList /\ [][NextList]_vars

---------------------------------------------------------------------------
(* Calls of the core one after another: each call runs to its end and      *)
(* hands its outcome to the caller before the next one begins.             *)

\* The promise of updateSavePath has settled and the caller has taken the
\* outcome.
UpdateReturn ==
    /\ updPc = "done"
    /\ updPc' = "idle"
    /\ newPath' = Undefined
    /\ absolutePath' = Undefined
    /\ oldSavePath' = Undefined
    /\ updRet' = NoReturn
    /\ UNCHANGED <<toolVars, listVars, objVars, config, fsVars, events, saveVars>>

\* The caller has taken the outcome of listSavedArtifacts.
ListReturn ==
    /\ listRet # NoReturn
    /\ listRet' = NoReturn
    /\ listUnreadable' = {}
    /\ listOrder' = <<>>
    /\ UNCHANGED <<toolVars, objVars, config, fsVars, events, updVars, saveVars>>

\* No call is in flight.
AllIdle == updPc = "idle" /\ savePc = "idle" /\ listRet = NoReturn

\* New save paths: one disjoint from the initial save root, and the working
\* directory, which holds it.
CallPaths == {<<"/", "c">>, <<>>}

\* Titles: flat, nested, leaving the save root, and none.
CallTitles == {<<"c">>, <<"c", "/", "c">>, <<".", ".", "/", "c">>, Undefined}

\* Every title with one content, and the flat title with a second one.
CallArtifacts ==
    {[id |-> <<"c">>, title |-> t, content |-> "v1", type |-> CodeType,
      language |-> <<"C">>] : t \in CallTitles}
    \cup {[id |-> <<"c">>, title |-> <<"c">>, content |-> "v2", type |-> CodeType,
           language |-> <<"C">>]}

\* The directories that may be unreadable, and the orders of enumeration.
CallUnreadable == {{}, {<<"/", "c">>}}

CallOrders ==
    {<<<<"c">>, <<"c", ".", "c">>>>, <<<<"c", ".", "c">>, <<"c">>>>}

InitCalls == Init

NextCalls ==
    \/ AllIdle /\ Len(events) < MaxCallEvents /\ \E p \in CallPaths : UpdateBegin(p)
    \/ UpdateMkdirOk
    \/ \E e \in EnvErrors \cup {"ENOTDIR"} : UpdateMkdirFail(e)
    \/ UpdateReturn
    \/ AllIdle /\ Len(events) < MaxCallEvents /\ \E a \in CallArtifacts : SaveBegin(a)
    \/ \E e \in EnvErrors : SaveMkdirRootFail(e)
    \/ SaveMkdirRootOkNested \/ SaveMkdirRootOkFlat \/ SaveMkdirRootOkNoTitle
    \/ \E e \in EnvErrors : SaveMkdirDirFail(e)
    \/ SaveMkdirDirOk
    \/ \E e \in EnvErrors \cup {"ENOENT", "EISDIR"} : SaveWriteFail(e)
    \/ SaveWriteOk
    \/ SaveReturn
    \/ AllIdle /\ \E unreadable \in CallUnreadable, order \in CallOrders :
                      ListArtifacts(unreadable, order)
    \/ ListReturn
    \/ AllIdle /\ refs = <<>> /\ GetConfig

SpecCalls == InitCalls /\ [][NextCalls]_vars

---------------------------------------------------------------------------
(* One updateSavePath and one saveArtifactToFile in flight together: both  *)
(* are async functions on one thread, so the steps of one run while the    *)
(* other waits at an await.                                                *)

InitRace == Init

NextRace ==
    \/ updPc = "idle" /\ \E p \in CallPaths : UpdateBegin(p)
    \/ UpdateMkdirOk
    \/ \E e \in EnvErrors \cup {"ENOTDIR"} : UpdateMkdirFail(e)
    \/ savePc = "idle" /\ \E a \in SeqArtifacts : SaveBegin(a)
    \/ \E e \in EnvErrors : SaveMkdirRootFail(e)
    \/ SaveMkdirRootOkNested \/ SaveMkdirRootOkFlat \/ SaveMkdirRootOkNoTitle
    \/ \E e \in EnvErrors : SaveMkdirDirFail(e)
    \/ SaveMkdirDirOk
    \/ \E e \in EnvErrors \cup {"ENOENT", "EISDIR"} : SaveWriteFail(e)
    \/ SaveWriteOk

SpecRace == InitRace /\ [][NextRace]_vars

---------------------------------------------------------------------------
(* The tool-call handler of the server (index.ts): one request at a time   *)
(* is received, dispatched on its tool name to the core, and answered.  A  *)
(* text is the sequence of the pieces its template literal joins.          *)

KnownTools == {"save-artifact", "set-save-path", "list-artifacts"}

\* Most entries the history has when a further request is received.
MaxToolEvents == 3

\* The artifact the save-artifact case builds from the arguments.
requestArtifact(r) ==
    [id |-> r.id, title |-> r.title, content |-> r.content, type |-> r.type,
     language |-> r.language]

\* The requests: save-artifact with a flat title, a nested title and no
\* title; set-save-path; list-artifacts; each also without arguments; and
\* tool names the server does not offer.
ToolRequests ==
    {[NoRequest EXCEPT !.name = "save-artifact", !.hasArguments = TRUE,
                       !.id = <<"c">>, !.title = t, !.content = "v1",
                       !.type = CodeType, !.language = <<"C">>] :
         t \in {<<"c">>, <<"c", "/", "c">>, Undefined}}
    \cup {[NoRequest EXCEPT !.name = "set-save-path", !.hasArguments = TRUE,
                            !.path = q] : q \in CallPaths}
    \cup {[NoRequest EXCEPT !.name = n] :
             n \in KnownTools \cup {"non-existent-tool", "constructor"}}

Response(isError, text) == [kind |-> "response", isError |-> isError, text |-> text]

\* The prefix of the error text of each case.
ErrorPrefix(name) ==
    CASE name = "save-artifact" -> "Error saving artifact: "
      [] name = "set-save-path" -> "Error setting save path: "
      [] name = "list-artifacts" -> "Error listing artifacts: "

\* The handler is entered with a request: lines 84-85.
ToolReceive(r) ==
    /\ toolPc \in {"idle", "responded"}
    /\ request' = [r EXCEPT !.eventsAt = Len(events)]
    /\ response' = NoResponse
    /\ toolPc' = "dispatch"
    /\ UNCHANGED <<listVars, objVars, config, fsVars, events, updVars, saveVars>>

\* Reading a property of the missing arguments throws a TypeError inside
\* the try block of the case, and the catch block answers.
ToolArgumentsMissing ==
    /\ toolPc = "dispatch"
    /\ request.name \in {"save-artifact", "set-save-path"}
    /\ ~request.hasArguments
    /\ response' = Response(TRUE, <<ErrorPrefix(request.name),
                       "TypeError: Cannot read properties of undefined">>)
    /\ toolPc' = "responded"
    /\ UNCHANGED <<listVars, objVars, config, fsVars, events, updVars, saveVars, request>>

\* The save-artifact case letting the rejection of the save leave the handler.
ToolSaveRespond_Rethrows ==
    /\ toolPc = "dispatch"
    /\ request.name = "save-artifact"
    /\ savePc = "done"
    /\ response' =
           IF saveRet.kind = "return"
           THEN Response(FALSE, <<"Successfully saved artifact \"",
                                  OrElse(artifact.title, artifact.id), "\" to ",
                                  saveRet.value>>)
           ELSE [kind |-> "throw", isError |-> FALSE, text |-> saveRet.value]
    /\ toolPc' = "responded"
    /\ UNCHANGED <<listVars, objVars, config, fsVars, events, updVars, saveVars, request>>

\* saveArtifactToFile has settled: lines 100-120.
ToolSaveRespond ==
    /\ toolPc = "dispatch"
    /\ request.name = "save-artifact"
    /\ savePc = "done"
    /\ response' =
           IF saveRet.kind = "return"
           THEN Response(FALSE, <<"Successfully saved artifact \"",
                                  OrElse(artifact.title, artifact.id), "\" to ",
                                  saveRet.value>>)
           ELSE Response(TRUE, <<ErrorPrefix("save-artifact"), "Error: ">> \o saveRet.value)
    /\ toolPc' = "responded"
    /\ UNCHANGED <<listVars, objVars, config, fsVars, events, updVars, saveVars, request>>

\* updateSavePath has settled: lines 126-147.
ToolUpdateRespond ==
    /\ toolPc = "dispatch"
    /\ request.name = "set-save-path"
    /\ updPc = "done"
    /\ response' =
           IF updRet.kind = "return"
           THEN Response(FALSE, <<"Successfully set save path to ", getConfig.savePath>>)
           ELSE Response(TRUE, <<ErrorPrefix("set-save-path"), "Error: ">> \o updRet.value)
    /\ toolPc' = "responded"
    /\ UNCHANGED <<listVars, objVars, config, fsVars, events, updVars, saveVars, request>>

\* listSavedArtifacts has settled: lines 152-184.
ToolListRespond ==
    /\ toolPc = "dispatch"
    /\ request.name = "list-artifacts"
    /\ listRet # NoReturn
    /\ response' =
           IF listRet.kind = "throw"
           THEN Response(TRUE, <<ErrorPrefix("list-artifacts"), "Error: ">> \o listRet.value)
           ELSE IF Len(listRet.value) = 0
           THEN Response(FALSE, <<"No artifacts found in ", getConfig.savePath>>)
           ELSE Response(FALSE, <<"Artifacts in ", getConfig.savePath, ":\n",
                                  join(listRet.value, "\n")>>)
    /\ toolPc' = "responded"
    /\ UNCHANGED <<listVars, objVars, config, fsVars, events, updVars, saveVars, request>>

\* The default case: lines 187-196.
ToolUnknown ==
    /\ toolPc = "dispatch"
    /\ request.name \notin KnownTools
    /\ response' = Response(TRUE, <<"Unknown tool: ", request.name>>)
    /\ toolPc' = "responded"
    /\ UNCHANGED <<listVars, objVars, config, fsVars, events, updVars, saveVars, request>>

InitTool == Init

\* The handler has dispatched `name` and read the arguments the case uses:
\* the list-artifacts case reads none.
Dispatched(name) ==
    /\ toolPc = "dispatch"
    /\ request.name = name
    /\ request.hasArguments \/ name = "list-artifacts"

NextTool ==
    \/ AllIdle /\ Len(events) < MaxToolEvents /\ \E r \in ToolRequests : ToolReceive(r)
    \/ ToolArgumentsMissing
    \/ Dispatched("save-artifact") /\ SaveBegin(requestArtifact(request))
    \/ \E e \in EnvErrors : SaveMkdirRootFail(e)
    \/ SaveMkdirRootOkNested \/ SaveMkdirRootOkFlat \/ SaveMkdirRootOkNoTitle
    \/ \E e \in EnvErrors : SaveMkdirDirFail(e)
    \/ SaveMkdirDirOk
    \/ \E e \in EnvErrors \cup {"ENOENT", "EISDIR"} : SaveWriteFail(e)
    \/ SaveWriteOk
    \/ ToolSaveRespond
    \/ toolPc = "responded" /\ SaveReturn
    \/ Dispatched("set-save-path") /\ UpdateBegin(request.path)
    \/ UpdateMkdirOk
    \/ \E e \in EnvErrors \cup {"ENOTDIR"} : UpdateMkdirFail(e)
    \/ ToolUpdateRespond
    \/ toolPc = "responded" /\ UpdateReturn
    \/ Dispatched("list-artifacts") /\ \E unreadable \in CallUnreadable \cup {{ListRootDir}},
                                          order \in CallOrders :
                                           ListArtifacts(unreadable, order)
    \/ ToolListRespond
    \/ toolPc = "responded" /\ ListReturn
    \/ ToolUnknown

SpecTool == InitTool /\ [][NextTool]_vars

---------------------------------------------------------------------------
(* Properties of the config store (Spec). *)

\* An absolute path without empty, "." or ".." segments and without a
\* trailing separator.
IsResolved(p) ==
    /\ isAbsolute(p)
    /\ p = <<"/">> \/ \A i \in 2..Len(split(p, Slash)) :
                       split(p, Slash)[i] \notin {<<>>, <<".">>, <<".", ".">>}

\* C1: when the directory creation of updateSavePath(p) fails, the call
\* throws an error whose message holds 'Failed to set save path' and the
\* underlying cause, and the savePath that getConfig returns is the one from
\* before the call.
C1_FailedUpdateKeepsSavePath ==
    \A i \in 1..Len(events) :
        (events[i].by = "update" /\ events[i].op = "error") =>
            /\ updPc = "done"
            /\ updRet.kind = "throw"
            /\ \E j \in 1..Len(updRet.value) : updRet.value[j] = "Failed to set save path: "
            /\ \E j \in 1..Len(updRet.value) : updRet.value[j] = events[i].data
            /\ getConfig.savePath = oldSavePath

C1_Witness ==
    /\ updPc = "done"
    /\ updRet.kind = "throw"
    /\ newPath = <<"/", "c">>
    /\ getConfig.savePath = <<".", "/", "a", "r", "t", "i", "f", "a", "c", "t", "s">>

\* C2: when updateSavePath(p) succeeds, the recursive mkdir of the absolute
\* form of p was issued before the one assignment of the config, and
\* getConfig().savePath is the absolute resolution of p.
C2_UpdateResolvesAndCreatesFirst ==
    updRet.kind = "return" =>
        /\ EventsOf("update") =
               << Event("mkdir", pathResolve(newPath), "recursive", "update"),
                  Event("setConfig", pathResolve(newPath), "", "update") >>
        /\ getConfig.savePath = pathResolve(newPath)
        /\ IsResolved(getConfig.savePath)
        /\ getConfig.savePath \in fsDirs

C2_Witness ==
    /\ updRet.kind = "return"
    /\ newPath = <<".", ".", "/", "c", "/", ".", "/", "c">>
    /\ getConfig.savePath = <<"/", "c", "/", "c">>

---------------------------------------------------------------------------
(* Properties of the extension resolver (SpecExt). *)

\* The table of section 4.1 of the specification.
TypeTable ==
    { <<"text/markdown", <<"m", "d">>>>, <<"text/html", <<"h", "t", "m", "l">>>>,
      <<"image/svg+xml", <<"s", "v", "g">>>>, <<"application/vnd.ant.mermaid", <<"m", "m", "d">>>>,
      <<"application/vnd.ant.react", <<"j", "s", "x">>>> }

LanguageTable ==
    { <<<<"p", "y", "t", "h", "o", "n">>, <<"p", "y">>>>, <<<<"j", "a", "v", "a", "s", "c", "r", "i", "p", "t">>, <<"j", "s">>>>,
      <<<<"t", "y", "p", "e", "s", "c", "r", "i", "p", "t">>, <<"t", "s">>>>, <<<<"j", "a", "v", "a">>, <<"j", "a", "v", "a">>>>, <<<<"c">>, <<"c">>>>,
      <<<<"c", "p", "p">>, <<"c", "p", "p">>>>, <<<<"c", "s", "h", "a", "r", "p">>, <<"c", "s">>>>, <<<<"g", "o">>, <<"g", "o">>>>,
      <<<<"r", "u", "b", "y">>, <<"r", "b">>>>, <<<<"r", "u", "s", "t">>, <<"r", "s">>>>, <<<<"p", "h", "p">>, <<"p", "h", "p">>>>,
      <<<<"s", "w", "i", "f", "t">>, <<"s", "w", "i", "f", "t">>>>, <<<<"k", "o", "t", "l", "i", "n">>, <<"k", "t">>>>,
      <<<<"s", "c", "a", "l", "a">>, <<"s", "c", "a", "l", "a">>>>, <<<<"s", "h", "e", "l", "l">>, <<"s", "h">>>>, <<<<"b", "a", "s", "h">>, <<"s", "h">>>>,
      <<<<"p", "o", "w", "e", "r", "s", "h", "e", "l", "l">>, <<"p", "s", "1">>>>, <<<<"s", "q", "l">>, <<"s", "q", "l">>>>,
      <<<<"h", "t", "m", "l">>, <<"h", "t", "m", "l">>>>, <<<<"c", "s", "s">>, <<"c", "s", "s">>>>, <<<<"j", "s", "o", "n">>, <<"j", "s", "o", "n">>>>,
      <<<<"y", "a", "m", "l">>, <<"y", "a", "m", "l">>>>, <<<<"x", "m", "l">>, <<"x", "m", "l">>>> }

\* C3: the resolver returns the table's extension for every supported type
\* (for application/vnd.ant.code, the language table's), and 'txt' for every
\* type that is not exactly a table entry, whatever the language.
C3_ResolverFollowsTable ==
    savePc = "resolved" =>
        /\ \A e \in TypeTable : artifact.type = e[1] => extension = e[2]
        /\ \A e \in LanguageTable :
               (artifact.type = CodeType /\ artifact.language = e[1]) => extension = e[2]
        /\ (artifact.type \notin {e[1] : e \in TypeTable} \cup {CodeType}) =>
               extension = <<"t", "x", "t">>

C3_Witness ==
    /\ savePc = "resolved"
    /\ artifact.type = "image/svg+xml"
    /\ artifact.language = <<"p", "y", "t", "h", "o", "n">>
    /\ extension = <<"s", "v", "g">>

\* C4: for application/vnd.ant.code the language lookup ignores case, every
\* language that is missing, empty or not a key of the language table
\* resolves to 'txt', and the resolver returns a string.
C4_UnknownLanguageIsTxt ==
    (savePc = "resolved" /\ artifact.type = CodeType) =>
        /\ IsString(extension)
        /\ \A e \in LanguageTable :
               (IsString(artifact.language) /\ toLowerCase(artifact.language) = e[1])
                   => extension = e[2]
        /\ (\/ ~IsString(artifact.language)
            \/ artifact.language = <<>>
            \/ toLowerCase(artifact.language) \notin {e[1] : e \in LanguageTable})
               => extension = <<"t", "x", "t">>

---------------------------------------------------------------------------
(* Properties of the path builder (Spec). *)

\* The save has computed its output path and issued the write.
WriteIssued == savePc \in {"write", "done"} /\ outputPath # Undefined

HasTitle == Truthy(artifact.title)
TitleHasSlash == HasTitle /\ includes(artifact.title, Slash)

\* The resolved extension, as text.
ExtText == templateString(getExtensionForType(artifact.type, artifact.language))

NoForbidden(s) == \A i \in 1..Len(s) : s[i] \notin ForbiddenChars

\* Section 4.2, rule 4: each forbidden character replaced by "_".
Sanitized(s) == [i \in 1..Len(s) |-> IF s[i] \in ForbiddenChars THEN "_" ELSE s[i]]

\* The file written and the directory holding it.
WrittenName == baseName(pathResolve(outputPath))
WrittenDir == parentDir(pathResolve(outputPath))

\* C5: without a title, the file written is named 'artifact-<id>.<extension>'
\* (sanitized) and lies directly in Config.savePath.
C5_NoTitleUsesIdInSaveRoot ==
    (WriteIssued /\ ~HasTitle) =>
        /\ WrittenName = Sanitized(ArtifactPrefix \o artifact.id \o Dot \o ExtText)
        /\ WrittenDir = pathResolve(config.savePath)

\* C6: a title without '/' that already ends with '.<extension>' is the file
\* name as it is (sanitized): no second extension is appended.
C6_NoDoubleExtensionFlat ==
    (WriteIssued /\ HasTitle /\ ~TitleHasSlash /\ endsWith(artifact.title, Dot \o ExtText)) =>
        WrittenName = Sanitized(artifact.title)

\* C7: for a title with '/', the directory made of the segments before the
\* last one, joined under Config.savePath, is created with every directory
\* above it before the write is issued, and a non-empty last segment is
\* written, with the extension, in that directory.
C7_NestedDirsCreatedBeforeWrite ==
    (WriteIssued /\ TitleHasSlash) =>
        LET ev == EventsOf("save")
            segs == split(artifact.title, Slash)
            dir == pathJoin(config.savePath, join(Front(segs), Slash))
        IN  /\ \E i, j \in 1..Len(ev) :
                  /\ i < j
                  /\ ev[i] = Event("mkdir", dir, "recursive", "save")
                  /\ ev[j].op = "writeFile" /\ ev[j].path = outputPath
            /\ ancestorsAndSelf(pathResolve(dir)) \subseteq fsDirs
            /\ Last(segs) # <<>> =>
                  /\ WrittenDir = pathResolve(dir)
                  /\ startsWith(WrittenName, Sanitized(Last(segs)))
                  /\ endsWith(WrittenName, Dot \o ExtText)

C7_Witness ==
    /\ savePc = "done"
    /\ saveRet.kind = "return"
    /\ artifact.title = <<"c", "/", "c">>
    /\ artifact.type = "text/markdown"
    /\ config.savePath = <<"/", "c">>
    /\ saveRet.value = <<"/", "c", "/", "c", "/", "c", ".", "m", "d">>
    /\ <<"/", "c", "/", "c", "/", "c", ".", "m", "d">> \in DOMAIN fsFiles

\* The part of the output path below the save root.
BelowRoot ==
    LET root == pathResolve(config.savePath) \o <<Slash>>
        out == pathResolve(outputPath)
    IN  IF startsWith(out, root) THEN SubSeq(out, Len(root) + 1, Len(out)) ELSE out

\* C8: no segment of the output path below the save root, directory
\* components of the title included, holds a forbidden character.
C8_EverySegmentSanitized ==
    WriteIssued => NoForbidden(BelowRoot)

\* C9: for a title without '/', the file name is the title with each
\* forbidden character replaced by '_' and every other character kept,
\* followed by '.<extension>'; it holds no forbidden character.
C9_FlatTitleSanitized ==
    (WriteIssued /\ HasTitle /\ ~TitleHasSlash) =>
        LET t == artifact.title
            f == WrittenName
        IN  /\ Len(f) = Len(t) + 1 + Len(ExtText)
            /\ \A i \in 1..Len(t) :
                   f[i] = IF t[i] \in ForbiddenChars THEN "_" ELSE t[i]
            /\ f[Len(t) + 1] = "."
            /\ SubSeq(f, Len(t) + 2, Len(f)) = ExtText
            /\ NoForbidden(f)

C9_Witness ==
    /\ savePc = "done"
    /\ saveRet.kind = "return"
    /\ artifact.title = <<"c", ":", ".">>
    /\ artifact.type = CodeType
    /\ artifact.language = <<"C">>
    /\ WrittenName = <<"c", "_", ".", ".", "c">>

\* C10: when the last segment of a title with '/' is empty, the file name is
\* 'artifact-<id>' (sanitized) with the extension at its end, in the
\* directory given by the segments before it.
C10_EmptyLastSegmentFallsBack ==
    (WriteIssued /\ TitleHasSlash /\ Last(split(artifact.title, Slash)) = <<>>) =>
        /\ WrittenDir = pathResolve(dirPath)
        /\ startsWith(WrittenName, Sanitized(ArtifactPrefix \o artifact.id))
        /\ endsWith(WrittenName, Dot \o ExtText)

\* The fs calls of the save that are writes.
SaveWrites == SelectSeq(EventsOf("save"), LAMBDA e : e.op = "writeFile")

\* C12: a successful saveArtifactToFile performs exactly one file write,
\* whose content is artifact.content unchanged, and returns exactly the
\* path that was passed to that write.
C12_OneWriteOfContentReturnsItsPath ==
    (savePc = "done" /\ saveRet.kind = "return") =>
        /\ Len(SaveWrites) = 1
        /\ SaveWrites[1].data = artifact.content
        /\ SaveWrites[1].path = saveRet.value
        /\ pathResolve(saveRet.value) \in DOMAIN fsFiles
        /\ fsFiles[pathResolve(saveRet.value)] = artifact.content

\* A save below the relative initial save path has returned the relative
\* path it wrote.
C12_Witness ==
    /\ savePc = "done"
    /\ saveRet.kind = "return"
    /\ artifact.title = <<"c">>
    /\ saveRet.value = <<"a", "r", "t", "i", "f", "a", "c", "t", "s", "/", "c", ".", "c">>
    /\ Len(SaveWrites) = 1
    /\ fsFiles[Cwd \o <<"/">> \o saveRet.value] = "v1"

\* C13: when the file write or a directory creation of saveArtifactToFile
\* fails, the failure is thrown to the caller: the call ends with that error,
\* returns no path, and issues no further fs call (no retry).
C13_FailurePropagatedNotRetried ==
    LET ev == EventsOf("save")
    IN  /\ \A i \in 1..Len(ev) :
               ev[i].op = "error" =>
                   /\ i = Len(ev)
                   /\ i > 1 /\ ev[i - 1].op \in {"mkdir", "writeFile"}
                   /\ ev[i - 1].path = ev[i].path
                   /\ savePc = "done"
                   /\ saveRet = [kind |-> "throw", value |-> <<ev[i].data>>]
        /\ (savePc = "done" /\ saveRet.kind = "return") =>
               \A i \in 1..Len(ev) : ev[i].op # "error"

\* The write of a save was rejected and the call has thrown.
C13_Witness ==
    LET ev == EventsOf("save")
    IN  /\ savePc = "done"
        /\ saveRet = [kind |-> "throw", value |-> <<"EACCES">>]
        /\ Len(ev) > 1
        /\ ev[Len(ev)].op = "error"
        /\ ev[Len(ev) - 1].op = "writeFile"
        /\ Len(SaveWrites) = 1
        /\ pathResolve(outputPath) \notin DOMAIN fsFiles

\* C14: in every saveArtifactToFile call that reaches the write, for every
\* title and every id, the immediate parent directory of the resolved output
\* path has been created by a recursive mkdir earlier in the same call.
C14_ParentCreatedBeforeWrite ==
    WriteIssued =>
        LET ev == EventsOf("save")
        IN  \E i, j \in 1..Len(ev) :
                /\ i < j
                /\ ev[i].op = "mkdir" /\ ev[i].data = "recursive"
                /\ WrittenDir \in ancestorsAndSelf(pathResolve(ev[i].path))
                /\ ev[j].op = "writeFile" /\ ev[j].path = outputPath

\* C19: every file saveArtifactToFile writes lies inside the directory tree
\* rooted at the current config.savePath, for every title and every id.
C19_WritesStayInsideSaveRoot ==
    WriteIssued => isUnder(pathResolve(outputPath), pathResolve(config.savePath))

\* C20: config.savePath is an absolute path in every reachable state, the
\* initial one included.
C20_SavePathAlwaysAbsolute == isAbsolute(config.savePath)

---------------------------------------------------------------------------
(* Properties of a sequence of saves (SpecSeq). *)

\* The writes of the history that have resolved: a write is still pending
\* while its call waits for it, and was rejected when an error follows it.
ResolvedWrites ==
    {k \in 1..Len(events) :
        /\ events[k].op = "writeFile"
        /\ ~(k = Len(events) /\ savePc = "write")
        /\ k < Len(events) => events[k + 1].op # "error"}

\* The last resolved write to the resolved path p.
LastWriteTo(p) ==
    CHOOSE k \in ResolvedWrites :
        /\ pathResolve(events[k].path) = p
        /\ \A j \in ResolvedWrites : pathResolve(events[j].path) = p => j <= k

\* C11: after any sequence of successful saves the file at each resolved
\* path holds exactly the content of the last save that resolved to that
\* path, and the files are exactly the paths saved to: a file is replaced,
\* never appended to, and no second file is created for it.
C11_LastWriterWins ==
    /\ DOMAIN fsFiles = {pathResolve(events[k].path) : k \in ResolvedWrites}
    /\ \A p \in DOMAIN fsFiles : fsFiles[p] = events[LastWriteTo(p)].data

\* Two saves with different titles and contents resolved to one path, and
\* the file holds the content of the second.
C11_Witness ==
    \E i, j \in ResolvedWrites :
        /\ i < j
        /\ events[i].path = events[j].path
        /\ events[i].data = "v1" /\ events[j].data = "v2"
        /\ LastWriteTo(pathResolve(events[j].path)) = j
        /\ DOMAIN fsFiles = {pathResolve(events[j].path)}
        /\ fsFiles[pathResolve(events[j].path)] = "v2"
        /\ savePc = "idle"

---------------------------------------------------------------------------
(* Properties of the objects of the config store (SpecObj). *)

\* The savePath the module's config has when nobody assigns to it from
\* outside: the initial one until updateSavePath has stored another.
StoredSavePath ==
    IF updPc = "done" /\ updRet.kind = "return" THEN absolutePath
    ELSE <<".", "/", "a", "r", "t", "i", "f", "a", "c", "t", "s">>

\* C15: getConfig returns a value copy: the objects returned are distinct
\* from each other and from the module's config and hold the savePath of
\* the time of the call, so two calls return equal objects; assigning to
\* the savePath of a returned object changes neither the module's
\* config.savePath nor an object returned by another call.
C15_GetConfigReturnsCopy ==
    /\ \A i \in 1..Len(refs) :
           /\ refs[i].addr # ConfigAddr
           /\ refs[i].returned = refs[i].at
           /\ Deref(refs[i].addr).savePath = refs[i].expected
           /\ \A j \in 1..Len(refs) : i # j => refs[i].addr # refs[j].addr
    /\ config.savePath = StoredSavePath

\* Two calls returned equal objects, and the first has been assigned to
\* since: the second and the module's config still hold the initial path.
C15_Witness ==
    /\ Len(refs) = 2
    /\ refs[1].returned = refs[2].returned
    /\ refs[1].addr # refs[2].addr
    /\ Deref(refs[1].addr).savePath = <<"n", "e", "w", "-", "p", "a", "t", "h">>
    /\ Deref(refs[2].addr).savePath = <<".", "/", "a", "r", "t", "i", "f", "a", "c", "t", "s">>
    /\ config.savePath = <<".", "/", "a", "r", "t", "i", "f", "a", "c", "t", "s">>

---------------------------------------------------------------------------
(* Properties of the lister (SpecList). *)

ListRoot == pathResolve(config.savePath)

\* The regular files and the directories below the save root.
FilesUnderRoot == {x \in DOMAIN fsFiles : x # ListRoot /\ isUnder(x, ListRoot)}
DirsUnderRoot == {d \in fsDirs : isUnder(d, ListRoot)}

\* The path of x relative to the save root: what follows "<root>/".
RelativeToRoot(x) == SubSeq(x, Len(ListRoot) + 2, Len(x))

ListedPaths == {listRet.value[i] : i \in 1..Len(listRet.value)}

\* C16: when every directory under the save root is readable,
\* listSavedArtifacts returns, for every regular file at any depth under
\* config.savePath, its path relative to savePath exactly once, and the
\* result contains no directory.
C16_ListsEveryFileOnce ==
    (listRet.kind # "none" /\ listUnreadable \cap DirsUnderRoot = {}) =>
        /\ listRet.kind = "return"
        /\ ListedPaths = {RelativeToRoot(x) : x \in FilesUnderRoot}
        /\ Len(listRet.value) = Cardinality(FilesUnderRoot)
        /\ \A r \in ListedPaths :
               pathResolve(pathJoin(config.savePath, r)) \notin fsDirs

\* A readable tree with files at depth 0, 1 and 2 has been listed.
C16_Witness ==
    /\ listRet.kind = "return"
    /\ listUnreadable = {}
    /\ listOrder = <<<<"f">>, <<"d">>, <<"e">>>>
    /\ listRet.value = <<<<"f">>, <<"d", "/", "f">>, <<"d", "/", "d", "/", "f">>>>
    /\ ListRoot \o <<"/", "e">> \in fsDirs

\* C17: listSavedArtifacts never throws, and when the root directory
\* config.savePath does not exist or cannot be read it returns the empty
\* sequence.
C17_ListNeverThrows ==
    /\ listRet.kind # "throw"
    /\ (listRet.kind = "return" /\ (ListRoot \notin fsDirs \/ ListRoot \in listUnreadable))
          => listRet.value = <<>>

\* The root holds files but cannot be read, and the empty sequence was
\* returned.
C17_Witness ==
    /\ listRet = [kind |-> "return", value |-> <<>>]
    /\ ListRoot \in fsDirs
    /\ ListRoot \in listUnreadable
    /\ FilesUnderRoot # {}

\* C18: when a subdirectory cannot be read during listSavedArtifacts, no
\* path under it appears in the result, while every file of the root and of
\* every readable directory outside the unreadable ones, enumerated before
\* or after the failing one, is still returned.
C18_UnreadableSubdirectorySkipped ==
    (listRet.kind = "return" /\ ListRoot \in fsDirs /\ ListRoot \notin listUnreadable) =>
        \A x \in FilesUnderRoot :
            RelativeToRoot(x) \in ListedPaths
                <=> ~\E b \in listUnreadable \cap DirsUnderRoot : isUnder(x, b)

\* The unreadable directory d was enumerated after e and before f: the file
\* of e and the file of the root are returned, the files below d are not.
C18_Witness ==
    /\ listRet.kind = "return"
    /\ listUnreadable = {ListRoot \o <<"/", "d">>}
    /\ listOrder = <<<<"e">>, <<"d">>, <<"f">>>>
    /\ ListRoot \o <<"/", "d", "/", "f">> \in DOMAIN fsFiles
    /\ listRet.value = <<<<"e", "/", "f">>, <<"f">>>>

---------------------------------------------------------------------------
(* Further properties of the path builder (Spec). *)

\* "." followed by the resolved extension.
DotExt == Dot \o ExtText

\* C23: for a title with '/' whose last segment already ends with
\* '.<resolved extension>', the file name is that segment, sanitized, with
\* nothing appended; for any other non-empty last segment the extension is
\* appended exactly once; so the written name ends with '.<ext>.<ext>' only
\* if the last segment did.
C23_NestedExtensionAppendedOnce ==
    (WriteIssued /\ TitleHasSlash /\ Last(split(artifact.title, Slash)) # <<>>) =>
        LET seg == Last(split(artifact.title, Slash))
        IN  /\ IF endsWith(seg, DotExt)
               THEN WrittenName = Sanitized(seg)
               ELSE WrittenName = Sanitized(seg \o DotExt)
            /\ endsWith(WrittenName, DotExt \o DotExt) => endsWith(seg, DotExt \o DotExt)

\* The last segment '.c' of the title '/.c' already ends with the extension
\* 'c' and was written as '.c'.
C23_Witness ==
    /\ savePc = "done"
    /\ saveRet.kind = "return"
    /\ artifact.title = <<"/", ".", "c">>
    /\ ExtText = <<"c">>
    /\ WrittenName = <<".", "c">>

---------------------------------------------------------------------------
(* Properties of calls made one after another (SpecCalls). *)

\* C21: config.savePath is changed only by updateSavePath (the step that
\* follows its resolved mkdir): no step of saveArtifactToFile,
\* listSavedArtifacts or getConfig, successful or failing, changes it, and
\* no step of listSavedArtifacts or getConfig changes the file system.
C21_OnlyUpdateChangesSavePath ==
    [][/\ (saveVars' # saveVars \/ listVars' # listVars \/ objVars' # objVars)
              => config' = config
       /\ (listVars' # listVars \/ objVars' # objVars) => fsVars' = fsVars
       /\ config' # config => (updPc = "mkdir" /\ updPc' = "done")]_vars

\* A save has written a file, another has failed, the tree has been listed
\* and getConfig has been called, and the save path is still the initial one.
C21_Witness ==
    /\ DOMAIN fsFiles # {}
    /\ \E i \in 1..Len(events) : events[i].by = "save" /\ events[i].op = "error"
    /\ listRet.kind = "return"
    /\ listRet.value # <<>>
    /\ refs # <<>>
    /\ config.savePath = <<".", "/", "a", "r", "t", "i", "f", "a", "c", "t", "s">>

\* The resolved writes that no successful updateSavePath has followed.
WritesSinceUpdate ==
    {k \in ResolvedWrites :
        \A j \in (k + 1)..Len(events) : events[j].op # "setConfig"}

\* C24: after saveArtifactToFile succeeded and returned path P, with no
\* updateSavePath in between (nothing deletes files), a following
\* listSavedArtifacts that can read every directory returns the path of P
\* relative to config.savePath.
C24_SavedFileIsListed ==
    (listRet.kind = "return" /\ listUnreadable \cap DirsUnderRoot = {}) =>
        \A k \in WritesSinceUpdate :
            \E r \in ListedPaths :
                pathResolve(pathJoin(config.savePath, r)) = pathResolve(events[k].path)

\* The assignments of config.savePath in the history, and the last one.
SetConfigs == {j \in 1..Len(events) : events[j].op = "setConfig"}
LastSetConfig == CHOOSE u \in SetConfigs : \A j \in SetConfigs : j <= u

\* The save root before the last assignment, resolved.
PreviousRoot ==
    LET before == {j \in SetConfigs : j < LastSetConfig}
    IN  IF before = {}
        THEN pathResolve(<<".", "/", "a", "r", "t", "i", "f", "a", "c", "t", "s">>)
        ELSE events[CHOOSE j \in before : \A i \in before : i <= j].path

\* Neither directory holds the other.
Disjoint(d, e) == ~isUnder(d, e) /\ ~isUnder(e, d)

\* The last resolved write to p before index u of the history.
LastWriteBefore(u, p) ==
    CHOOSE k \in ResolvedWrites :
        /\ k < u /\ pathResolve(events[k].path) = p
        /\ \A j \in ResolvedWrites :
               (j < u /\ pathResolve(events[j].path) = p) => j <= k

\* C25: after a successful updateSavePath to a root disjoint from the
\* previous one, listSavedArtifacts enumerates only the new root, later
\* saves write only under the new root, and the files saved under the
\* previous root are still there with the content they had.
C25_NewRootLeavesOldFiles ==
    (SetConfigs # {} /\ Disjoint(events[LastSetConfig].path, PreviousRoot)) =>
        LET u == LastSetConfig
            new == events[u].path
        IN  /\ listRet.kind = "return" =>
                   \A r \in ListedPaths :
                       /\ pathResolve(pathJoin(config.savePath, r)) \in DOMAIN fsFiles
                       /\ isUnder(pathResolve(pathJoin(config.savePath, r)), new)
            /\ \A k \in (u + 1)..Len(events) :
                   events[k].op = "writeFile" => isUnder(pathResolve(events[k].path), new)
            /\ \A k \in ResolvedWrites :
                   (k < u /\ isUnder(pathResolve(events[k].path), PreviousRoot)) =>
                       /\ pathResolve(events[k].path) \in DOMAIN fsFiles
                       /\ fsFiles[pathResolve(events[k].path)]
                              = events[LastWriteBefore(u, pathResolve(events[k].path))].data

---------------------------------------------------------------------------
(* Properties of overlapping calls (SpecRace). *)

\* The save root that saveArtifactToFile ensured at its start: the argument
\* of its first mkdir.
StartRoot == EventsOf("save")[1].path

\* C26: when updateSavePath completes while saveArtifactToFile waits for its
\* first mkdir, the save still writes its file under the save root it
\* started with and ensured, not under the new one: one save uses a single
\* value of config.savePath.
C26_SaveUsesOneSavePath ==
    WriteIssued => isUnder(pathResolve(outputPath), pathResolve(StartRoot))

---------------------------------------------------------------------------
(* Properties of the tool-call handler (SpecTool). *)

\* The core operation of the request has failed: it has logged an error
\* since the request was received.
OperationFailed(by) ==
    \E i \in (request.eventsAt + 1)..Len(events) :
        events[i].by = by /\ events[i].op = "error"

\* C22: the tool-call handler never throws and answers the request once
\* the core call has settled: a failed save, set-save-path or list yields
\* isError = true with a text beginning 'Error saving artifact', 'Error
\* setting save path' or 'Error listing artifacts', and an unknown tool name
\* yields isError = true with the text 'Unknown tool: <name>' and no call of
\* the core.
C22_HandlerAlwaysAnswers ==
    /\ response.kind # "throw"
    /\ toolPc = "responded" =>
           /\ response.kind = "response"
           /\ (request.name = "save-artifact" /\ OperationFailed("save")) =>
                  response.isError /\ response.text[1] = "Error saving artifact: "
           /\ (request.name = "set-save-path" /\ OperationFailed("update")) =>
                  response.isError /\ response.text[1] = "Error setting save path: "
           /\ (request.name = "list-artifacts" /\ listRet.kind = "throw") =>
                  response.isError /\ response.text[1] = "Error listing artifacts: "
           /\ request.name \notin KnownTools =>
                  /\ response = Response(TRUE, <<"Unknown tool: ", request.name>>)
                  /\ Len(events) = request.eventsAt
                  /\ AllIdle
           /\ ~response.isError =>
                  /\ request.name \in KnownTools
                  /\ ~OperationFailed("save") /\ ~OperationFailed("update")

\* A save whose write was rejected has been answered with the error text.
C22_Witness ==
    /\ toolPc = "responded"
    /\ request.name = "save-artifact"
    /\ savePc = "done" /\ saveRet.kind = "throw"
    /\ response = Response(TRUE, <<"Error saving artifact: ", "Error: ", "EACCES">>)

====
